---- MODULE Spec2Model ----
(***************************************************************************)
(* Model of cherab/solps/formats/balance.py: load_solps_from_balance.      *)
(* The loader is a straight-line routine; each action below is one block   *)
(* of its statements, and a Python exception ends the run in pc = "raised".*)
(***************************************************************************)
EXTENDS Integers, Sequences, FiniteSets, TLC

VARIABLES path, file, pc, err, fhandle, cr_x, cr_z, vol, mesh, sim,
          i, zn, D0_indx, eirene_run, returned

vars == <<path, file, pc, err, fhandle, cr_x, cr_z, vol, mesh, sim,
          i, zn, D0_indx, eirene_run, returned>>

(***************************************************************************)
(* Bounds of the model.                                                    *)
(***************************************************************************)
MaxSpecies == 2      \* records on the raw species axis
MaxP == 2            \* length of raw axis 1 of the 3-d fields
MaxR == 2            \* length of raw axis 2 of the 3-d fields
NAtoms == 2          \* channels of the kinetic-code density 'dab2'

\* the slice 0:-2 of line 134 drops this many trailing columns
Pad == 2

(***************************************************************************)
(* Python values.  An unbound local is the empty tuple, a bound one <<v>>. *)
(***************************************************************************)
Unbound == <<>>
Bound(v) == <<v>>
NoArray == [shape |-> <<>>, data |-> <<>>]
NoFile == [P |-> 0, R |-> 0, keys |-> {}, records |-> <<>>]

\* index tuples (0-based, as numpy) of an array of the given shape
Indices(shape) ==
    IF Len(shape) = 3
    THEN (0..(shape[1]-1)) \X (0..(shape[2]-1)) \X (0..(shape[3]-1))
    ELSE (0..(shape[1]-1)) \X (0..(shape[2]-1))

\* str(int): decimal rendering of a non-negative integer
Digit(d) == CASE d = 0 -> "0" [] d = 1 -> "1" [] d = 2 -> "2" [] d = 3 -> "3"
              [] d = 4 -> "4" [] d = 5 -> "5" [] d = 6 -> "6" [] d = 7 -> "7"
              [] d = 8 -> "8" [] d = 9 -> "9"
RECURSIVE str(_)
str(n) == IF n < 10 THEN Digit(n) ELSE str(n \div 10) \o Digit(n % 10)

(***************************************************************************)
(* The species catalog.  Masses are in thousandths of an atomic mass unit, *)
(* so that 4.003 is 4003; the value is the element's symbol.               *)
(***************************************************************************)
_popular_species ==
    ( <<1, 2000>> :> "D" ) @@ ( <<6, 12000>> :> "C" ) @@ ( <<2, 4003>> :> "He" ) @@
    ( <<7, 14000>> :> "N" ) @@ ( <<10, 20180>> :> "Ne" ) @@ ( <<18, 39948>> :> "Ar" ) @@
    ( <<18, 40000>> :> "Ar" ) @@ ( <<36, 83798>> :> "Kr" ) @@ ( <<54, 131293>> :> "Xe" )

(***************************************************************************)
(* The source file.  A record of the species axis is the two characters    *)
(* species[i,1], species[i,2], the atomic mass am[i] and the charge za[i]. *)
(***************************************************************************)
PathKinds == {"file", "dir", "missing", "unreadable"}

OptionalKeys == {"dab2", "eirene_mc_eael_she_bal", "eirene_mc_papl_sna_bal",
                 "b2stel_sna_ion_bal"}

SpeciesCodes == { <<"D", "0">>, <<"C", "+">>, <<"N", "+">>, <<"N", "e">>,
                  <<"A", "r">>, <<"H", "e">> }

SpeciesMass == ( <<"D", "0">> :> 2000 ) @@ ( <<"C", "+">> :> 12000 ) @@
               ( <<"N", "+">> :> 14000 ) @@ ( <<"N", "e">> :> 20180 ) @@
               ( <<"A", "r">> :> 40000 ) @@ ( <<"H", "e">> :> 2000 )

\* the ionisation states za[i] that accompany each code
SpeciesCharges == ( <<"D", "0">> :> {0, 1} ) @@ ( <<"C", "+">> :> {0} ) @@
                  ( <<"N", "+">> :> {1} ) @@ ( <<"N", "e">> :> {1} ) @@
                  ( <<"A", "r">> :> {1} ) @@ ( <<"H", "e">> :> {1} )

RawRecords == UNION { { [code |-> c, am |-> SpeciesMass[c], za |-> z] :
                          z \in SpeciesCharges[c] } : c \in SpeciesCodes }

RECURSIVE SeqsUpTo(_, _)
SeqsUpTo(S, n) ==
    IF n = 0 THEN { <<>> }
    ELSE LET shorter == SeqsUpTo(S, n - 1)
         IN shorter \cup { Append(s, x) : s \in { t \in shorter : Len(t) = n - 1 }, x \in S }

Files == [ P : 1..MaxP, R : 1..MaxR, keys : SUBSET OptionalKeys,
           records : SeqsUpTo(RawRecords, MaxSpecies) ]

Corners == 0..3

\* fhandle.variables[name].data: every element carries its own raw position
RawArray(name, shape) ==
    [shape |-> shape, data |-> [idx \in Indices(shape) |-> <<name, idx>>]]

Variable(f, name) ==
    CASE name \in {"crx", "cry"} -> RawArray(name, <<Cardinality(Corners), f.P, f.R>>)
      [] name = "vol"            -> RawArray(name, <<f.P, f.R>>)
      [] name = "na"             -> RawArray(name, <<Len(f.records), f.P, f.R>>)
      [] name = "dab2"           -> RawArray(name, <<NAtoms, f.P, f.R + Pad>>)

(***************************************************************************)
(* numpy.swapaxes on a 3-d array, axes numbered from 0.                    *)
(***************************************************************************)
SwapTuple(t, a, b) ==
    LET at(k) == IF k = a + 1 THEN t[b + 1] ELSE IF k = b + 1 THEN t[a + 1] ELSE t[k]
    IN <<at(1), at(2), at(3)>>

swapaxes(A, a, b) ==
    [shape |-> SwapTuple(A.shape, a, b),
     data  |-> [idx \in Indices(SwapTuple(A.shape, a, b)) |-> A.data[SwapTuple(idx, a, b)]]]

\* a single swap of axes 0 and 2, in place of the two swaps
RearrangeOneStep(A) == swapaxes(A, 0, 2)

\* lines 69-70, 71-72, 116-117: swap axes 0 and 2, then axes 0 and 1
Rearrange(A) == swapaxes(swapaxes(A, 0, 2), 0, 1)

\* the slice taken from the two leading columns' far side: 2: in place of 0:-2
NeutralSliceShifted(A) ==
    [shape |-> <<A.shape[2], A.shape[3] - Pad>>,
     data  |-> [idx \in Indices(<<A.shape[2], A.shape[3] - Pad>>) |->
                   A.data[<<0, idx[1], idx[2] + Pad>>]]]

\* dab2.data[0,:,0:-2]: channel 0, last two columns dropped
NeutralSlice(A) ==
    [shape |-> <<A.shape[2], A.shape[3] - Pad>>,
     data  |-> [idx \in Indices(<<A.shape[2], A.shape[3] - Pad>>) |-> A.data[<<0, idx[1], idx[2]>>]]]

\* species_density[:,:,k] = src
AssignSlice(A, k, src) ==
    [A EXCEPT !.data = [idx \in DOMAIN A.data |->
                          IF idx[3] = k THEN src.data[<<idx[1], idx[2]>>] ELSE A.data[idx]]]

(***************************************************************************)
(* Lines 97-106: the chain of tests that assigns zn.  No test resets zn,   *)
(* so a code that matches none of them leaves the previous value.          *)
(***************************************************************************)
NuclearCharge(prev, code) ==
    LET z1 == IF code[1] = "D" THEN Bound(1) ELSE prev
        z2 == IF code[1] = "C" THEN Bound(6) ELSE z1
        z3 == IF code[1] = "N" THEN Bound(7) ELSE z2
        z4 == IF code[1] = "N" /\ code[2] = "e" THEN Bound(10) ELSE z3
        z5 == IF code[1] = "A" /\ code[2] = "r" THEN Bound(18) ELSE z4
    IN z5

(***************************************************************************)
(* The simulation object.                                                  *)
(***************************************************************************)
NoMesh == [cr_x |-> NoArray, cr_z |-> NoArray, vol |-> NoArray]

NoSim == [mesh |-> NoMesh, electron_temperature |-> "unset",
          electron_density |-> "unset", species_list |-> <<>>,
          species_density |-> NoArray, inside_mesh |-> "unset", total_rad |-> "unset"]

\* line 75: the mesh object keeps the arrays it is built from
SOLPSMesh(x, z, v) == [cr_x |-> x, cr_z |-> z, vol |-> v]

\* line 77
SOLPSSimulation(m) == [NoSim EXCEPT !.mesh = m]

CoupledRad == "abs(b2_ploss+(eirene_ecoolrate-eirene_potential_loss))"
FluidRad == "abs(13.6*Q*potential_loss-b2_ploss)"

Raise(e) == pc' = "raised" /\ err' = e

Init ==
    /\ path \in PathKinds
    /\ file \in IF path = "file" THEN Files ELSE {NoFile}
    /\ pc = "validate"
    /\ err = "none"
    /\ fhandle = "none"
    /\ cr_x = NoArray /\ cr_z = NoArray /\ vol = NoArray
    /\ mesh = NoMesh
    /\ sim = NoSim
    /\ i = 0
    /\ zn = Unbound
    /\ D0_indx = Unbound
    /\ eirene_run = Unbound
    /\ returned = NoSim

\* lines 57-58: the RuntimeError is constructed and dropped, never raised
Validate ==
    /\ pc = "validate"
    /\ pc' = "open"
    /\ UNCHANGED <<path, file, err, fhandle, cr_x, cr_z, vol, mesh, sim,
                   i, zn, D0_indx, eirene_run, returned>>

\* line 61: netcdf_file(balance_filename, 'r')
Open ==
    /\ pc = "open"
    /\ IF path = "file"
       THEN fhandle' = "open" /\ pc' = "geometry" /\ err' = err
       ELSE Raise("OSError") /\ fhandle' = fhandle
    /\ UNCHANGED <<path, file, cr_x, cr_z, vol, mesh, sim,
                   i, zn, D0_indx, eirene_run, returned>>

\* lines 64-72: copy the geometry and rearrange the corner coordinates
LoadGeometry ==
    /\ pc = "geometry"
    /\ cr_x' = Rearrange(Variable(file, "crx"))
    /\ cr_z' = Rearrange(Variable(file, "cry"))
    /\ vol' = Variable(file, "vol")
    /\ pc' = "mesh"
    /\ UNCHANGED <<path, file, err, fhandle, mesh, sim,
                   i, zn, D0_indx, eirene_run, returned>>

\* lines 75-79: build the mesh and the simulation object around it
BuildMesh ==
    /\ pc = "mesh"
    /\ mesh' = SOLPSMesh(cr_x, cr_z, vol)
    /\ sim' = SOLPSSimulation(mesh')
    /\ pc' = "electrons"
    /\ UNCHANGED <<path, file, err, fhandle, cr_x, cr_z, vol,
                   i, zn, D0_indx, eirene_run, returned>>

\* len(fhandle.variables['am'].data), line 92
n_species == Len(file.records)

\* lines 84-92: electron fields, empty species list
LoadElectrons ==
    /\ pc = "electrons"
    /\ sim' = [sim EXCEPT !.electron_temperature = "te/Q",
                          !.electron_density = "ne",
                          !.species_list = <<>>]
    /\ i' = 0
    /\ pc' = "species"
    /\ UNCHANGED <<path, file, err, fhandle, cr_x, cr_z, vol, mesh,
                   zn, D0_indx, eirene_run, returned>>

\* the label rendered with the charge in front of the symbol
LabelChargeFirst(symbol, charge) == str(charge) \o symbol

\* line 113: species.symbol + str(charge)
Label(symbol, charge) == symbol \o str(charge)

\* lines 94-113: one pass of the loop body, for record i
DecodeSpecies ==
    /\ pc = "species"
    /\ i < n_species
    /\ LET rec == file.records[i + 1]
           z == NuclearCharge(zn, rec.code)
       IN /\ zn' = z
          /\ IF z = Unbound
             THEN Raise("UnboundLocalError:zn") /\ UNCHANGED <<sim, i>>
             ELSE IF <<z[1], rec.am>> \notin DOMAIN _popular_species
                  THEN Raise("KeyError:_popular_species") /\ UNCHANGED <<sim, i>>
                  ELSE /\ sim' = [sim EXCEPT !.species_list =
                                    Append(@, Label(_popular_species[<<z[1], rec.am>>], rec.za))]
                       /\ i' = i + 1
                       /\ UNCHANGED <<pc, err>>
    /\ UNCHANGED <<path, file, fhandle, cr_x, cr_z, vol, mesh,
                   D0_indx, eirene_run, returned>>

\* the density stored without waiting for the species loop to finish
LoadDensityEarly ==
    /\ pc = "species"
    /\ sim' = [sim EXCEPT !.species_density = Rearrange(Variable(file, "na")),
                          !.inside_mesh = "AxisymmetricMapper"]
    /\ pc' = "neutrals"
    /\ UNCHANGED <<path, file, err, fhandle, cr_x, cr_z, vol, mesh,
                   i, zn, D0_indx, eirene_run, returned>>

\* lines 115-123: loop exhausted; store the rearranged density, the mapper
LoadDensity ==
    /\ pc = "species"
    /\ i = n_species
    /\ sim' = [sim EXCEPT !.species_density = Rearrange(Variable(file, "na")),
                          !.inside_mesh = "AxisymmetricMapper"]
    /\ pc' = "neutrals"
    /\ UNCHANGED <<path, file, err, fhandle, cr_x, cr_z, vol, mesh,
                   i, zn, D0_indx, eirene_run, returned>>

\* lines 126-129: the loop runs to the end, so the last match is kept
LastD0(list) ==
    LET hits == { k \in 0..(Len(list) - 1) : list[k + 1] = "D0" }
    IN IF hits = {} THEN Unbound
       ELSE Bound(CHOOSE k \in hits : \A h \in hits : h <= k)

FindD0 ==
    /\ pc = "neutrals"
    /\ D0_indx' = LastD0(sim.species_list)
    /\ pc' = "substitute"
    /\ UNCHANGED <<path, file, err, fhandle, cr_x, cr_z, vol, mesh, sim,
                   i, zn, eirene_run, returned>>

\* lines 133-137
SubstituteNeutrals ==
    /\ pc = "substitute"
    /\ IF "dab2" \in file.keys
       THEN IF D0_indx = Unbound
            THEN Raise("UnboundLocalError:D0_indx") /\ UNCHANGED <<sim, eirene_run>>
            ELSE /\ sim' = [sim EXCEPT !.species_density =
                              AssignSlice(@, D0_indx[1], NeutralSlice(Variable(file, "dab2")))]
                 /\ eirene_run' = Bound(TRUE)
                 /\ pc' = "power"
                 /\ err' = err
       ELSE /\ eirene_run' = Bound(FALSE)
            /\ pc' = "power"
            /\ UNCHANGED <<sim, err>>
    /\ UNCHANGED <<path, file, fhandle, cr_x, cr_z, vol, mesh,
                   i, zn, D0_indx, returned>>

\* lines 142-169: the branch is chosen by eirene_run alone; in the first
\* branch the two kinetic-code terms are bound only if their fields exist,
\* and line 155 reads both
TotalRad ==
    /\ pc = "power"
    /\ IF eirene_run = Bound(TRUE)
       THEN IF "eirene_mc_eael_she_bal" \notin file.keys
            THEN Raise("UnboundLocalError:eirene_ecoolrate") /\ sim' = sim
            ELSE IF "eirene_mc_papl_sna_bal" \notin file.keys
                 THEN Raise("UnboundLocalError:eirene_potential_loss") /\ sim' = sim
                 ELSE /\ sim' = [sim EXCEPT !.total_rad = CoupledRad]
                      /\ pc' = "close"
                      /\ err' = err
       ELSE IF "b2stel_sna_ion_bal" \notin file.keys
            THEN Raise("KeyError:b2stel_sna_ion_bal") /\ sim' = sim
            ELSE /\ sim' = [sim EXCEPT !.total_rad = FluidRad]
                 /\ pc' = "close"
                 /\ err' = err
    /\ UNCHANGED <<path, file, fhandle, cr_x, cr_z, vol, mesh,
                   i, zn, D0_indx, eirene_run, returned>>

\* line 171
Close ==
    /\ pc = "close"
    /\ fhandle' = "closed"
    /\ pc' = "return"
    /\ UNCHANGED <<path, file, err, cr_x, cr_z, vol, mesh, sim,
                   i, zn, D0_indx, eirene_run, returned>>

\* line 173
Return ==
    /\ pc = "return"
    /\ returned' = sim
    /\ pc' = "done"
    /\ UNCHANGED <<path, file, err, fhandle, cr_x, cr_z, vol, mesh, sim,
                   i, zn, D0_indx, eirene_run>>

Next ==
    \/ Validate
    \/ Open
    \/ LoadGeometry
    \/ BuildMesh
    \/ LoadElectrons
    \/ DecodeSpecies
    \/ LoadDensity
    \/ FindD0
    \/ SubstituteNeutrals
    \/ TotalRad
    \/ Close
    \/ Return

Spec == Init /\ [][Next]_vars

(***************************************************************************)
(* Properties of the loader.                                               *)
(***************************************************************************)

\* the element the two-swap rearrangement puts at position idx of a field
Moved(name, idx) == <<name, <<idx[3], idx[1], idx[2]>>>>

\* a species code that one of the tests of lines 97-105 accepts
MatchesRule(code) ==
    \/ code[1] \in {"D", "C", "N"}
    \/ code[1] = "A" /\ code[2] = "r"

\* the label of a record taken by itself: charge from its own code only
OwnLabel(rec) ==
    LET z == NuclearCharge(Unbound, rec.code)
    IN IF z = Unbound THEN "none"
       ELSE IF <<z[1], rec.am>> \notin DOMAIN _popular_species THEN "none"
       ELSE _popular_species[<<z[1], rec.am>>] \o str(rec.za)

CoupledKeys == {"dab2", "eirene_mc_eael_she_bal", "eirene_mc_papl_sna_bal"}

\* C1: a path that does not exist or cannot be read stops the load with
\* SourceNotFoundError at the validation step; the open is never attempted
\* and no handle exists.
C1_MissingPathRaisesBeforeOpen ==
    path \in {"missing", "unreadable"} =>
        /\ pc \in {"validate", "raised"}
        /\ pc = "raised" => err = "SourceNotFoundError"
        /\ fhandle = "none"

\* C2: when the load has ended, by return or by an error, the handle it
\* opened is not left open.
C2_HandleClosedOnEveryExit ==
    pc \in {"done", "raised"} => fhandle # "open"

\* C3: no record whose code matches none of the rules D, C, N, Ne, Ar has
\* been given a label; the load stops at such a record.
C3_UnmatchedCodeNeverLabelled ==
    \A k \in 1..Len(sim.species_list) : MatchesRule(file.records[k].code)

C5_NoD0StepSkipped ==
    (sim.species_density # NoArray /\ LastD0(sim.species_list) = Unbound) =>
        /\ err # "UnboundLocalError:D0_indx"
        /\ sim.species_density = Rearrange(Variable(file, "na"))

\* C6: with all coupled-transport fields present the power is the coupled
\* formula; with exactly one of them removed the power step raises nothing
\* and the power is the fluid-only formula.
C6_BranchesExclusiveAndTotal ==
    /\ (CoupledKeys \subseteq file.keys /\ sim.total_rad # "unset")
           => sim.total_rad = CoupledRad
    /\ ( /\ Cardinality(CoupledKeys \cap file.keys) = Cardinality(CoupledKeys) - 1
         /\ "b2stel_sna_ion_bal" \in file.keys
         /\ eirene_run # Unbound )
           => /\ pc # "raised"
              /\ sim.total_rad \in {"unset", FluidRad}

\* C7: after the neutral step, with 'dab2' present and 'D0' found at index
\* D0_indx, the density slice at that index is channel 0 of 'dab2' without
\* its last two columns, cell by cell, and every other slice is the
\* rearranged input; without 'dab2' the whole density is the rearranged input.
C7_NeutralSubstitution ==
    eirene_run # Unbound =>
        LET d == sim.species_density
        IN /\ eirene_run = Bound("dab2" \in file.keys)
           /\ d.shape = <<file.P, file.R, n_species>>
           /\ DOMAIN d.data = Indices(d.shape)
           /\ IF "dab2" \in file.keys
              THEN /\ D0_indx # Unbound
                   /\ sim.species_list[D0_indx[1] + 1] = "D0"
                   /\ \A idx \in DOMAIN d.data :
                        d.data[idx] = IF idx[3] = D0_indx[1]
                                      THEN <<"dab2", <<0, idx[1], idx[2]>>>>
                                      ELSE Moved("na", idx)
              ELSE \A idx \in DOMAIN d.data : d.data[idx] = Moved("na", idx)

\* C7 witness: substitution done on a two-species density, non-square grid
C7_Witness ==
    /\ eirene_run = Bound(TRUE)
    /\ Len(sim.species_list) = 2
    /\ D0_indx = Bound(0)
    /\ file.P # file.R

\* C8 as stated: a field of raw shape (C, P, R) gets shape (R, P, C) with
\* B[r, p, c] = A[c, p, r].
C8_ShapeRPC ==
    /\ cr_x # NoArray =>
          /\ cr_x.shape = <<file.R, file.P, Cardinality(Corners)>>
          /\ \A idx \in DOMAIN cr_x.data :
                cr_x.data[idx] = <<"crx", <<idx[3], idx[2], idx[1]>>>>
    /\ (sim.species_density # NoArray /\ eirene_run = Unbound) =>
          /\ sim.species_density.shape = <<file.R, file.P, n_species>>
          /\ \A idx \in DOMAIN sim.species_density.data :
                sim.species_density.data[idx] = <<"na", <<idx[3], idx[2], idx[1]>>>>

\* C8 amended: a field of raw shape (C, P, R) gets shape (P, R, C) with
\* B[p, r, c] = A[c, p, r]: the leading axis goes last and the other two
\* keep their order; the same for the coordinates and the density.
C8_ShapePRC ==
    /\ cr_x # NoArray =>
          /\ cr_x.shape = <<file.P, file.R, Cardinality(Corners)>>
          /\ DOMAIN cr_x.data = Indices(cr_x.shape)
          /\ \A idx \in DOMAIN cr_x.data : cr_x.data[idx] = Moved("crx", idx)
          /\ cr_z.shape = cr_x.shape
          /\ DOMAIN cr_z.data = Indices(cr_z.shape)
          /\ \A idx \in DOMAIN cr_z.data : cr_z.data[idx] = Moved("cry", idx)
    /\ (sim.species_density # NoArray /\ eirene_run = Unbound) =>
          /\ sim.species_density.shape = <<file.P, file.R, n_species>>
          /\ DOMAIN sim.species_density.data = Indices(sim.species_density.shape)
          /\ \A idx \in DOMAIN sim.species_density.data :
                sim.species_density.data[idx] = Moved("na", idx)

\* C8 witness: coordinates and a two-species density rearranged, P # R
C8_Witness ==
    /\ cr_x # NoArray
    /\ sim.species_density # NoArray
    /\ eirene_run = Unbound
    /\ n_species = 2
    /\ file.P # file.R

\* C9: every step that decodes a record finds the mesh built; every step of
\* the neutral substitution finds all records decoded and the density stored;
\* the step that sets the radiated power finds the density stored and
\* reconciled; the simulation is returned only with its radiated power set.
C9_StepOrder ==
    [][ /\ (zn' # zn \/ sim'.species_list # sim.species_list
               \/ (pc = "species" /\ pc' = "raised"))
            => (mesh # NoMesh /\ sim.mesh = mesh)
        /\ (D0_indx' # D0_indx \/ eirene_run' # eirene_run
               \/ (pc = "substitute" /\ pc' = "raised"))
            => (Len(sim.species_list) = n_species /\ sim.species_density # NoArray)
        /\ (sim'.total_rad # sim.total_rad)
            => (sim.species_density # NoArray /\ eirene_run # Unbound)
        /\ (returned' # returned)
            => (sim.total_rad # "unset" /\ returned' = sim) ]_vars

\* C9 witness: a load of two species that went through every step
C9_Witness ==
    /\ pc = "done"
    /\ Len(returned.species_list) = 2
    /\ returned.total_rad = CoupledRad

\* C10: after a successful load there is one label per raw record, and the
\* label at each position is the one its own record gives.
C10_LabelsFollowRecords ==
    pc = "done" =>
        /\ Len(returned.species_list) = n_species
        /\ \A k \in 1..Len(returned.species_list) :
              returned.species_list[k] = OwnLabel(file.records[k])
====
